---- MODULE Spec2Model ----
(***************************************************************************)
(* A model of gitlab.com/tdely/go-hawk (src/hawk.go): the Hawk request     *)
(* signing context (Details.Create, Validate, Finalize, GetAuthorization), *)
(* the response verifier (Hawk.ValidateResponse), the client built on them *)
(* (Client.NewRequest, Client.ValidateResponse) and the nonce generator    *)
(* (NewNonce) with the random source its callers share.                    *)
(*                                                                         *)
(* Strings are sequences of symbols.  A symbol is a one-character string,  *)
(* or a digest symbol: the base64 text of a hash or MAC, written as one    *)
(* symbol that spells out its preimage (H[...], M[...]), so that two       *)
(* digests are equal exactly when algorithm, key and preimage are equal    *)
(* (a collision-free hash).  A digest symbol is never a quote, a semicolon *)
(* or a word character, as base64 text ends in "=".                        *)
(***************************************************************************)
EXTENDS Integers, Sequences, FiniteSets, TLC

VARIABLES
    h,      \* the Hawk value the caller holds (src/hawk.go:72-93)
    call,   \* the call that has just returned: operation, arguments, result
    client, \* the Client that holds h as its hawk field, if one does
    rnd,    \* the shared random source randSrc: who is inside Int63
    nn      \* the NewNonce calls in progress, one per caller

vars == <<h, call, client, rnd, nn>>

\* the variables of the nonce generator, and the others
gvars == <<rnd, nn>>
hvars == <<h, call, client>>

-----------------------------------------------------------------------------
(* Strings                                                                 *)

Empty == <<>>

Digits == <<"0", "1", "2", "3", "4", "5", "6", "7", "8", "9">>

RECURSIVE DecNat(_)
DecNat(n) == IF n < 10 THEN <<Digits[n + 1]>>
             ELSE DecNat(n \div 10) \o <<Digits[(n % 10) + 1]>>

\* fmt's %d of an int64
Dec(n) == IF n < 0 THEN <<"-">> \o DecNat(-n) ELSE DecNat(n)

\* strings.Index(s, c) for a one-symbol c, counted from 0; -1 when absent
RECURSIVE IndexFrom(_, _, _)
IndexFrom(s, c, i) ==
    IF i > Len(s) THEN -1
    ELSE IF s[i] = c THEN i - 1
    ELSE IndexFrom(s, c, i + 1)

Index(s, c) == IndexFrom(s, c, 1)

\* \w of the regular expressions: [0-9A-Za-z_] (the letters the model uses)
WordChars == {"0", "1", "2", "3", "4", "5", "6", "7", "8", "9", "_",
              "a", "c", "d", "e", "f", "g", "h", "i", "k", "m", "n", "o", "p",
              "s", "t", "u", "w", "x", "H", "G"}

IsWord(c) == c \in WordChars

Quote == "\""

-----------------------------------------------------------------------------
(* Hash algorithms (crypto.Hash)                                           *)

NoHash == "none"        \* the zero value of crypto.Hash
SHA256 == "SHA256"

Available(alg) == alg = SHA256

-----------------------------------------------------------------------------
(* Digests                                                                 *)

PayloadPrefix ==
    <<"h", "a", "w", "k", ".", "1", ".", "p", "a", "y", "l", "o", "a", "d">>

HeaderPrefix ==
    <<"h", "a", "w", "k", ".", "1", ".", "h", "e", "a", "d", "e", "r">>

NL == <<"\n">>

\* hasher.Sum, base64 encoded: one digest symbol
Digest(alg, text) == <<"H[" \o alg \o ":" \o ToString(text) \o "]">>

\* hmac.New(h.New, k) over text, base64 encoded: one digest symbol
HMAC(alg, k, text) == <<"M[" \o alg \o ":" \o k \o ":" \o ToString(text) \o "]">>

PayloadPreimage(ct, c) == PayloadPrefix \o NL \o ct \o NL \o c \o NL

hashPayload(alg, ct, c) == Digest(alg, PayloadPreimage(ct, c))

\* (the preimage with the port before the host)
HeaderPreimagePortFirst(ts, n, mtd, uri, hst, p, hsh, ext) ==
    HeaderPrefix \o NL \o Dec(ts) \o NL \o n \o NL \o mtd \o NL \o uri \o NL
        \o p \o NL \o hst \o NL \o hsh \o NL \o ext \o NL

\* (the preimage without the ext)
HeaderPreimageNoExt(ts, n, mtd, uri, hst, p, hsh, ext) ==
    HeaderPrefix \o NL \o Dec(ts) \o NL \o n \o NL \o mtd \o NL \o uri \o NL
        \o hst \o NL \o p \o NL \o hsh \o NL \o NL

\* the text fmt.Sprintf makes of the format of hashMAC
HeaderPreimage(ts, n, mtd, uri, hst, p, hsh, ext) ==
    HeaderPrefix \o NL \o Dec(ts) \o NL \o n \o NL \o mtd \o NL \o uri \o NL
        \o hst \o NL \o p \o NL \o hsh \o NL \o ext \o NL

hashMAC(alg, k, ts, n, mtd, uri, hst, p, hsh, ext) ==
    HMAC(alg, k, HeaderPreimage(ts, n, mtd, uri, hst, p, hsh, ext))

-----------------------------------------------------------------------------
(* The Hawk struct and Details                                             *)

ZeroHawk ==
    [algorithm |-> NoHash, host |-> Empty, port |-> Empty, uri |-> Empty,
     method |-> Empty, timestamp |-> 0, nonce |-> Empty,
     reqContentType |-> Empty, reqContent |-> Empty, reqExt |-> Empty,
     reqHash |-> Empty, reqMAC |-> Empty,
     respContentType |-> Empty, respContent |-> Empty, respExt |-> Empty,
     respHash |-> Empty, respMAC |-> Empty]

\* Details (src/hawk.go:136-147)
MkDetails(alg, hst, p, uri, ct, c, mtd, ts, n, ext) ==
    [Algorithm |-> alg, Host |-> hst, Port |-> p, URI |-> uri,
     ContentType |-> ct, Content |-> c, Method |-> mtd, Timestamp |-> ts,
     Nonce |-> n, Ext |-> ext]

ZeroDetails ==
    MkDetails(NoHash, Empty, Empty, Empty, Empty, Empty, Empty, 0, Empty, Empty)

\* the local variable err of Create: "nil" or the message of fmt.Errorf
CreateErr(hd) ==
    IF ~Available(hd.Algorithm) THEN "No algorithm provided"
    ELSE IF hd.Host = Empty THEN "No host provided"
    ELSE IF hd.Port = Empty THEN "No port provided"
    ELSE IF hd.URI = Empty THEN "No URI provided"
    ELSE IF hd.Method = Empty THEN "No method provided"
    ELSE "nil"

\* (Create taking timestamp and nonce as they are given)
CreateNoDefaults(hd, now, fresh) ==
    IF CreateErr(hd) # "nil"
    THEN [hawk |-> ZeroHawk, err |-> "nil"]
    ELSE [hawk |->
            [ZeroHawk EXCEPT
                !.algorithm = hd.Algorithm,
                !.host = hd.Host,
                !.port = hd.Port,
                !.uri = hd.URI,
                !.method = hd.Method,
                !.timestamp = hd.Timestamp,
                !.nonce = hd.Nonce,
                !.reqContentType = hd.ContentType,
                !.reqContent = hd.Content,
                !.reqExt = hd.Ext],
          err |-> "nil"]

\* Create with the clock reading `now` and NewNonce(6) returning `fresh`:
\* the Hawk and the error it returns
Create(hd, now, fresh) ==
    IF CreateErr(hd) # "nil"
    THEN [hawk |-> ZeroHawk, err |-> "nil"]
    ELSE [hawk |->
            [ZeroHawk EXCEPT
                !.algorithm = hd.Algorithm,
                !.host = hd.Host,
                !.port = hd.Port,
                !.uri = hd.URI,
                !.method = hd.Method,
                !.timestamp = IF hd.Timestamp = 0 THEN now ELSE hd.Timestamp,
                !.nonce = IF hd.Nonce = Empty THEN fresh ELSE hd.Nonce,
                !.reqContentType = hd.ContentType,
                !.reqContent = hd.Content,
                !.reqExt = hd.Ext],
          err |-> "nil"]

\* (Validate hashing whenever there is content or a content type)
ValidateAnyContent(hk) ==
    IF hk.reqMAC # Empty \/ (hk.reqContentType = Empty /\ hk.reqContent = Empty)
    THEN [hawk |-> hk, ret |-> FALSE]
    ELSE [hawk |-> [hk EXCEPT !.reqHash =
                        hashPayload(hk.algorithm, hk.reqContentType, hk.reqContent)],
          ret |-> TRUE]

\* (Validate without the test of reqMAC)
ValidateAfterMAC(hk) ==
    IF hk.reqContentType = Empty
    THEN [hawk |-> hk, ret |-> FALSE]
    ELSE [hawk |-> [hk EXCEPT !.reqHash =
                        hashPayload(hk.algorithm, hk.reqContentType, hk.reqContent)],
          ret |-> TRUE]

\* Validate: the Hawk afterwards and the boolean returned
Validate(hk) ==
    IF hk.reqMAC # Empty \/ hk.reqContentType = Empty
    THEN [hawk |-> hk, ret |-> FALSE]
    ELSE [hawk |-> [hk EXCEPT !.reqHash =
                        hashPayload(hk.algorithm, hk.reqContentType, hk.reqContent)],
          ret |-> TRUE]

\* (Finalize using the nonce up: it is cleared once the MAC is made)
FinalizeSpendsNonce(hk, key) ==
    IF hk.timestamp = 0 \/ hk.nonce = Empty \/ hk.method = Empty
       \/ hk.uri = Empty \/ hk.host = Empty \/ hk.port = Empty
       \/ hk.reqMAC # Empty
    THEN [hawk |-> hk, ret |-> FALSE]
    ELSE [hawk |-> [hk EXCEPT !.reqMAC =
                        hashMAC(hk.algorithm, key, hk.timestamp, hk.nonce,
                                hk.method, hk.uri, hk.host, hk.port,
                                hk.reqHash, hk.reqExt),
                              !.nonce = Empty],
          ret |-> TRUE]

\* (Finalize without the test of uri)
FinalizeNoURI(hk, key) ==
    IF hk.timestamp = 0 \/ hk.nonce = Empty \/ hk.method = Empty
       \/ hk.host = Empty \/ hk.port = Empty
       \/ hk.reqMAC # Empty
    THEN [hawk |-> hk, ret |-> FALSE]
    ELSE [hawk |-> [hk EXCEPT !.reqMAC =
                        hashMAC(hk.algorithm, key, hk.timestamp, hk.nonce,
                                hk.method, hk.uri, hk.host, hk.port,
                                hk.reqHash, hk.reqExt)],
          ret |-> TRUE]

\* (Finalize without the test of reqMAC)
FinalizeAgain(hk, key) ==
    IF hk.timestamp = 0 \/ hk.nonce = Empty \/ hk.method = Empty
       \/ hk.uri = Empty \/ hk.host = Empty \/ hk.port = Empty
    THEN [hawk |-> hk, ret |-> FALSE]
    ELSE [hawk |-> [hk EXCEPT !.reqMAC =
                        hashMAC(hk.algorithm, key, hk.timestamp, hk.nonce,
                                hk.method, hk.uri, hk.host, hk.port,
                                hk.reqHash, hk.reqExt)],
          ret |-> TRUE]

\* (Finalize leaving the payload hash out of the MAC)
FinalizeWithoutHash(hk, key) ==
    IF hk.timestamp = 0 \/ hk.nonce = Empty \/ hk.method = Empty
       \/ hk.uri = Empty \/ hk.host = Empty \/ hk.port = Empty
       \/ hk.reqMAC # Empty
    THEN [hawk |-> hk, ret |-> FALSE]
    ELSE [hawk |-> [hk EXCEPT !.reqMAC =
                        hashMAC(hk.algorithm, key, hk.timestamp, hk.nonce,
                                hk.method, hk.uri, hk.host, hk.port,
                                Empty, hk.reqExt)],
          ret |-> TRUE]

\* Finalize: the Hawk afterwards and the boolean returned
Finalize(hk, key) ==
    IF hk.timestamp = 0 \/ hk.nonce = Empty \/ hk.method = Empty
       \/ hk.uri = Empty \/ hk.host = Empty \/ hk.port = Empty
       \/ hk.reqMAC # Empty
    THEN [hawk |-> hk, ret |-> FALSE]
    ELSE [hawk |-> [hk EXCEPT !.reqMAC =
                        hashMAC(hk.algorithm, key, hk.timestamp, hk.nonce,
                                hk.method, hk.uri, hk.host, hk.port,
                                hk.reqHash, hk.reqExt)],
          ret |-> TRUE]

GetReqMAC(hk) == hk.reqMAC

GetReqHash(hk) == hk.reqHash

\* the text `key="val"`
Field(key, val) == key \o <<"=", Quote>> \o val \o <<Quote>>

Sep == <<",", " ">>

Scheme == <<"H", "a", "w", "k", " ">>

KeyId == <<"i", "d">>
KeyTs == <<"t", "s">>
KeyNonce == <<"n", "o", "n", "c", "e">>
KeyHash == <<"h", "a", "s", "h">>
KeyExt == <<"e", "x", "t">>
KeyMac == <<"m", "a", "c">>

\* (GetAuthorization without the test of reqMAC)
GetAuthorizationAlways(hk, uid) ==
    LET hc0 == Scheme \o Field(KeyId, uid) \o Sep
                   \o Field(KeyTs, Dec(hk.timestamp)) \o Sep
                   \o Field(KeyNonce, hk.nonce)
        hc1 == IF hk.reqHash # Empty
               THEN hc0 \o Sep \o Field(KeyHash, hk.reqHash) ELSE hc0
        hc2 == IF hk.reqExt # Empty
               THEN hc1 \o Sep \o Field(KeyExt, hk.reqExt) ELSE hc1
    IN  hc2 \o Sep \o Field(KeyMac, hk.reqMAC)

\* (GetAuthorization with ext printed before hash)
GetAuthorizationExtFirst(hk, uid) ==
    IF hk.reqMAC = Empty THEN Empty
    ELSE LET hc0 == Scheme \o Field(KeyId, uid) \o Sep
                        \o Field(KeyTs, Dec(hk.timestamp)) \o Sep
                        \o Field(KeyNonce, hk.nonce)
             hc1 == IF hk.reqExt # Empty
                    THEN hc0 \o Sep \o Field(KeyExt, hk.reqExt) ELSE hc0
             hc2 == IF hk.reqHash # Empty
                    THEN hc1 \o Sep \o Field(KeyHash, hk.reqHash) ELSE hc1
         IN  hc2 \o Sep \o Field(KeyMac, hk.reqMAC)

\* GetAuthorization: the header text, built as the Sprintf calls build it
GetAuthorization(hk, uid) ==
    IF hk.reqMAC = Empty THEN Empty
    ELSE LET hc0 == Scheme \o Field(KeyId, uid) \o Sep
                        \o Field(KeyTs, Dec(hk.timestamp)) \o Sep
                        \o Field(KeyNonce, hk.nonce)
             hc1 == IF hk.reqHash # Empty
                    THEN hc0 \o Sep \o Field(KeyHash, hk.reqHash) ELSE hc0
             hc2 == IF hk.reqExt # Empty
                    THEN hc1 \o Sep \o Field(KeyExt, hk.reqExt) ELSE hc1
         IN  hc2 \o Sep \o Field(KeyMac, hk.reqMAC)

-----------------------------------------------------------------------------
(* Parsing the Server-Authorization header with hawkPattern: a word, an    *)
(* equals sign, and a quoted value that holds no quote                     *)

\* first position >= i of s that holds no word character (Len(s)+1 if none)
RECURSIVE WordEnd(_, _)
WordEnd(s, i) ==
    IF i > Len(s) \/ ~IsWord(s[i]) THEN i ELSE WordEnd(s, i + 1)

\* first position >= i of s that holds a quote (0 if none)
RECURSIVE QuoteFrom(_, _)
QuoteFrom(s, i) ==
    IF i > Len(s) THEN 0
    ELSE IF s[i] = Quote THEN i
    ELSE QuoteFrom(s, i + 1)

\* the match of hawkPattern that starts at position i of s, if there is one:
\* a run of word characters, an equals sign, a quote, the text up to the
\* next quote
MatchAt(s, i) ==
    LET j == WordEnd(s, i)
        q == QuoteFrom(s, j + 2)
    IN  IF j > i /\ j + 1 <= Len(s) /\ s[j] = "=" /\ s[j + 1] = Quote /\ q > 0
        THEN [ok |-> TRUE, key |-> SubSeq(s, i, j - 1),
              val |-> SubSeq(s, j + 2, q - 1), end |-> q]
        ELSE [ok |-> FALSE, key |-> Empty, val |-> Empty, end |-> i]

\* re.FindAllSubmatch(auth, -1): the successive leftmost matches from i on,
\* each as <<key, value>>
\* (where no match starts at i, none starts inside the word run at i either:
\* the run ends at the same place, so the search resumes after the run)
RECURSIVE FindAllFrom(_, _)
FindAllFrom(s, i) ==
    IF i > Len(s) THEN <<>>
    ELSE LET m == MatchAt(s, i)
         IN  IF m.ok THEN <<(<<m.key, m.val>>)>> \o FindAllFrom(s, m.end + 1)
             ELSE IF IsWord(s[i]) THEN FindAllFrom(s, WordEnd(s, i))
             ELSE FindAllFrom(s, i + 1)

FindAllSubmatch(s) == FindAllFrom(s, 1)

\* (the loop keeping the first value of a key that occurs again)
RECURSIVE ApplyElementsFirst(_, _)
ApplyElementsFirst(hk, es) ==
    IF es = <<>> THEN hk
    ELSE LET key == Head(es)[1]
             val == Head(es)[2]
             rest == ApplyElementsFirst(hk, Tail(es))
         IN  IF key = KeyExt THEN [rest EXCEPT !.respExt = val]
             ELSE IF key = KeyHash THEN [rest EXCEPT !.respHash = val]
             ELSE IF key = KeyMac THEN [rest EXCEPT !.respMAC = val]
             ELSE rest

\* the loop over the elements: the switch on the key, element after element
RECURSIVE ApplyElements(_, _)
ApplyElements(hk, es) ==
    IF es = <<>> THEN hk
    ELSE LET key == Head(es)[1]
             val == Head(es)[2]
             nx == IF key = KeyExt THEN [hk EXCEPT !.respExt = val]
                   ELSE IF key = KeyHash THEN [hk EXCEPT !.respHash = val]
                   ELSE IF key = KeyMac THEN [hk EXCEPT !.respMAC = val]
                   ELSE hk
         IN  ApplyElements(nx, Tail(es))

-----------------------------------------------------------------------------
(* http.Response: the two headers read (the empty string when absent) and  *)
(* the body, <<>> for a nil Body and <<bytes>> otherwise                   *)

MkResponse(ct, auth, body) ==
    [ContentType |-> ct, ServerAuthorization |-> auth, Body |-> body]

NoResponse == MkResponse(Empty, Empty, <<>>)

\* the receiver after the header and body of r are read into it (lines 218-242)
ReadResponse(hk, r) ==
    LET ct == r.ContentType
        h1 == IF ct # Empty /\ Index(ct, ";") # -1
              THEN [hk EXCEPT !.respContentType = SubSeq(ct, 1, Index(ct, ";"))]
              ELSE IF ct # Empty THEN [hk EXCEPT !.respContentType = ct]
              ELSE hk
        h2 == ApplyElements(h1, FindAllSubmatch(r.ServerAuthorization))
    IN  IF r.Body # <<>> THEN [h2 EXCEPT !.respContent = r.Body[1]] ELSE h2

\* (the comparisons with the recomputed hash bound into the MAC when the
\* stored response hash is empty)
VerdictRecomputed(hk, k) ==
    IF ~Available(hk.algorithm) THEN "panic"
    ELSE LET calcHash == hashPayload(hk.algorithm, hk.respContentType, hk.respContent)
             bound == IF hk.respHash = Empty THEN calcHash ELSE hk.respHash
             calcMAC == hashMAC(hk.algorithm, k, hk.timestamp, hk.nonce, hk.method,
                                hk.uri, hk.host, hk.port, bound, hk.respExt)
         IN  IF hk.respHash # Empty /\ hk.respHash # calcHash THEN "false"
             ELSE IF hk.respMAC # calcMAC THEN "false"
             ELSE "true"

\* the two comparisons (lines 244-252); hashPayload panics when the algorithm
\* is unavailable (crypto.Hash.New)
Verdict(hk, k) ==
    IF ~Available(hk.algorithm) THEN "panic"
    ELSE LET calcHash == hashPayload(hk.algorithm, hk.respContentType, hk.respContent)
             calcMAC == hashMAC(hk.algorithm, k, hk.timestamp, hk.nonce, hk.method,
                                hk.uri, hk.host, hk.port, hk.respHash, hk.respExt)
         IN  IF hk.respHash # Empty /\ hk.respHash # calcHash THEN "false"
             ELSE IF hk.respMAC # calcMAC THEN "false"
             ELSE "true"

\* the length of the base64 text of a SHA-256 sum, which a digest symbol
\* stands for
Base64Len == 44

\* the number of bytes of a string: a digest symbol (a symbol longer than one
\* character) counts as its base64 text
RECURSIVE ByteLen(_)
ByteLen(s) ==
    IF s = <<>> THEN 0
    ELSE (IF Len(Head(s)) > 1 THEN Base64Len ELSE 1) + ByteLen(Tail(s))

\* a # b on strings: the numbers of bytes the comparison may look at before
\* it returns.  Strings of different length are told apart without looking
\* at a byte; equal strings are compared to the end; otherwise the
\* comparison returns at the first byte that differs, and where that is
\* depends on the bytes of the two texts, which the digest symbols do not
\* spell out
Examined(a, b) ==
    IF ByteLen(a) # ByteLen(b) THEN {0}
    ELSE IF a = b THEN {ByteLen(a)}
    ELSE 1..ByteLen(a)

\* the comparison h.respMAC != calcMAC (line 249), if the call gets there
MACComparison(hk, k) ==
    IF ~Available(hk.algorithm) THEN {}
    ELSE LET calcHash == hashPayload(hk.algorithm, hk.respContentType, hk.respContent)
             calcMAC == hashMAC(hk.algorithm, k, hk.timestamp, hk.nonce, hk.method,
                                hk.uri, hk.host, hk.port, hk.respHash, hk.respExt)
         IN  IF hk.respHash # Empty /\ hk.respHash # calcHash THEN {}
             ELSE Examined(hk.respMAC, calcMAC)

\* ValidateResponse: the Hawk afterwards, what the call returns ("true",
\* "false", or "panic" when it does not return) and the bytes its MAC
\* comparison may have looked at
ValidateResponse(hk, k, r) ==
    LET hr == ReadResponse(hk, r)
    IN  [hawk |-> hr, ret |-> Verdict(hr, k), examined |-> MACComparison(hr, k)]

-----------------------------------------------------------------------------
(* Client.NewRequest: the URL pattern and the request it builds            *)

\* s begins with pre
HasPrefix(s, pre) == Len(s) >= Len(pre) /\ SubSeq(s, 1, Len(pre)) = pre

\* s without its first k symbols
Drop(s, k) == SubSeq(s, k + 1, Len(s))

\* the length of the longest prefix of s whose symbols all lie in S
RECURSIVE SpanLen(_, _)
SpanLen(s, S) ==
    IF s = <<>> \/ Head(s) \notin S THEN 0 ELSE 1 + SpanLen(Tail(s), S)

\* the length of the longest prefix of s that holds no symbol of S
RECURSIVE SpanLenNot(_, _)
SpanLenNot(s, S) ==
    IF s = <<>> \/ Head(s) \in S THEN 0 ELSE 1 + SpanLenNot(Tail(s), S)

DigitChars == {Digits[j] : j \in 1..Len(Digits)}

HTTP == <<"h", "t", "t", "p">>
HTTPS == <<"h", "t", "t", "p", "s">>
SchemeSep == <<":", "/", "/">>

NoMatch == [ok |-> FALSE, m1 |-> Empty, m2 |-> Empty, m3 |-> Empty,
            m4 |-> Empty, m5 |-> Empty]

\* (the pattern with any run of letters as scheme)
FindSubmatchAnyScheme(url) ==
    LET k == Index(url, ":")
        m1 == IF k > 0 /\ HasPrefix(Drop(url, k), SchemeSep)
              THEN SubSeq(url, 1, k) ELSE Empty
        r2 == Drop(url, Len(m1) + Len(SchemeSep))
        m2 == SubSeq(r2, 1, SpanLenNot(r2, {":", "/"}))
        r3 == Drop(r2, Len(m2))
        m4 == IF r3 # <<>> /\ Head(r3) = ":"
              THEN SubSeq(r3, 2, 1 + SpanLen(Tail(r3), DigitChars))
              ELSE Empty
        m3 == IF m4 # Empty THEN <<":">> \o m4 ELSE Empty
        m5 == Drop(r3, Len(m3))
    IN  IF m1 = Empty \/ m2 = Empty THEN NoMatch
        ELSE IF m5 # <<>> /\ Head(m5) # "/" THEN NoMatch
        ELSE [ok |-> TRUE, m1 |-> m1, m2 |-> m2, m3 |-> m3, m4 |-> m4, m5 |-> m5]

\* re.FindSubmatch(url) for urlPattern: the subgroups 1 (scheme), 2 (host),
\* 3 (colon and port), 4 (port), 5 (the slash and what follows); ok is FALSE
\* when the pattern does not match.  The host is the longest run without a
\* colon or slash and the port the longest run of digits, since what follows
\* either must be a colon, a slash or the end.
FindSubmatch(url) ==
    LET m1 == IF HasPrefix(url, HTTPS \o SchemeSep) THEN HTTPS
              ELSE IF HasPrefix(url, HTTP \o SchemeSep) THEN HTTP
              ELSE Empty
        r2 == Drop(url, Len(m1) + Len(SchemeSep))
        m2 == SubSeq(r2, 1, SpanLenNot(r2, {":", "/"}))
        r3 == Drop(r2, Len(m2))
        m4 == IF r3 # <<>> /\ Head(r3) = ":"
              THEN SubSeq(r3, 2, 1 + SpanLen(Tail(r3), DigitChars))
              ELSE Empty
        m3 == IF m4 # Empty THEN <<":">> \o m4 ELSE Empty
        m5 == Drop(r3, Len(m3))
    IN  IF m1 = Empty \/ m2 = Empty THEN NoMatch
        ELSE IF m5 # <<>> /\ Head(m5) # "/" THEN NoMatch
        ELSE [ok |-> TRUE, m1 |-> m1, m2 |-> m2, m3 |-> m3, m4 |-> m4, m5 |-> m5]

\* http.NewRequest(method, url, body) fails on a URL whose port (between a
\* colon after the host and the next slash) is not a number; of the methods
\* and URLs explored here it rejects nothing else
PortText(url) ==
    LET k == Index(url, ":")
        r2 == Drop(url, k + 3)
        r3 == Drop(r2, SpanLenNot(r2, {":", "/"}))
    IN  IF k = -1 \/ r3 = <<>> \/ Head(r3) # ":" THEN Empty
        ELSE SubSeq(r3, 2, 1 + SpanLenNot(Tail(r3), {"/"}))

HTTPNewRequestFails(url) ==
    \E j \in 1..Len(PortText(url)) : PortText(url)[j] \notin DigitChars

\* the io.Reader given as body: none, a *strings.Reader over some bytes, or
\* a reader of another type, for which http.NewRequest sets no GetBody
NoBody == [kind |-> "nil", bytes |-> Empty]
StringsReader(bs) == [kind |-> "strings.Reader", bytes |-> bs]
OtherReader(bs) == [kind |-> "other", bytes |-> bs]

\* *http.Request: nil, or the headers NewRequest sets on it
NilRequest == [nil |-> TRUE, ContentType |-> Empty, Authorization |-> Empty]
MkRequest(ct, auth) == [nil |-> FALSE, ContentType |-> ct, Authorization |-> auth]

\* (NewRequest taking the port from the scheme alone)
NewRequestSchemePort(cl, hk, method, url, body, contentType, ext, now, nonce, fresh) ==
    LET pURL == FindSubmatch(url)
        port == IF pURL.m1 = HTTPS THEN <<"4", "4", "3">>
                ELSE IF pURL.m1 = HTTP THEN <<"8", "0">>
                ELSE Empty
        content == IF body.kind # "nil" THEN body.bytes ELSE Empty
        hd == MkDetails(cl.hash, pURL.m2, port, pURL.m5, contentType, content,
                        method, now, nonce, ext)
        h1 == Create(hd, now, fresh).hawk
        h2 == Validate(h1).hawk
        h3 == Finalize(h2, cl.key).hawk
        auth == GetAuthorization(h3, cl.uid)
    IN  IF HTTPNewRequestFails(url)
        THEN [hawk |-> hk, hd |-> ZeroDetails, req |-> NilRequest, err |-> "error"]
        ELSE IF ~pURL.ok
        THEN [hawk |-> hk, hd |-> ZeroDetails, req |-> NilRequest,
              err |-> "Failed to parse URL"]
        ELSE IF body.kind = "other"
        THEN [hawk |-> hk, hd |-> ZeroDetails, req |-> NilRequest, err |-> "panic"]
        ELSE [hawk |-> h3, hd |-> hd, req |-> MkRequest(contentType, auth),
              err |-> "nil"]

\* Client.NewRequest on the client cl holding the Hawk hk, with the clock
\* reading now, NewNonce(cl.NonceLength) returning nonce and NewNonce(6)
\* returning fresh: the Hawk the client holds afterwards, the Details built,
\* the request and the error returned (err is "panic" when the call does not
\* return: req.GetBody is nil for a reader of another type)
NewRequest(cl, hk, method, url, body, contentType, ext, now, nonce, fresh) ==
    LET pURL == FindSubmatch(url)
        port == IF pURL.m3 # Empty THEN pURL.m4
                ELSE IF pURL.m1 = HTTPS THEN <<"4", "4", "3">>
                ELSE IF pURL.m1 = HTTP THEN <<"8", "0">>
                ELSE Empty
        content == IF body.kind # "nil" THEN body.bytes ELSE Empty
        hd == MkDetails(cl.hash, pURL.m2, port, pURL.m5, contentType, content,
                        method, now, nonce, ext)
        h1 == Create(hd, now, fresh).hawk
        h2 == Validate(h1).hawk
        h3 == Finalize(h2, cl.key).hawk
        auth == GetAuthorization(h3, cl.uid)
    IN  IF HTTPNewRequestFails(url)
        THEN [hawk |-> hk, hd |-> ZeroDetails, req |-> NilRequest, err |-> "error"]
        ELSE IF ~pURL.ok
        THEN [hawk |-> hk, hd |-> ZeroDetails, req |-> NilRequest,
              err |-> "Failed to parse URL"]
        ELSE IF body.kind = "other"
        THEN [hawk |-> hk, hd |-> ZeroDetails, req |-> NilRequest, err |-> "panic"]
        ELSE [hawk |-> h3, hd |-> hd, req |-> MkRequest(contentType, auth),
              err |-> "nil"]

-----------------------------------------------------------------------------
(* The inputs explored                                                     *)

Keys == {"k1", "k2"}

Uids == {<<"u">>}

\* readings of time.Now().Unix() and results of NewNonce(6) that Create may see
Clock == {12}

FreshNonces == {<<"g", "0", "g", "0", "g", "0">>}

DetailsSet ==
    {MkDetails(alg, hst, p, uri, ct, c, mtd, ts, n, ext) :
        alg \in {NoHash, SHA256}, hst \in {Empty, <<"h">>},
        p \in {Empty, <<"8">>}, uri \in {Empty, <<"/">>},
        ct \in {Empty, <<"t">>, <<"t", ";", "x">>},
        c \in {Empty, <<"c">>}, mtd \in {Empty, <<"G">>},
        ts \in {0, 7}, n \in {Empty, <<"n">>}, ext \in {Empty, <<"e">>}}

\* the Hawk values code inside the package may hold before it calls an
\* operation: the zero value, and struct literals with any of the envelope
\* fields, the content type, the content and the ext left out; the ext holds
\* a newline, the delimiter of the MAC preimage
ExtLines == <<"a", "\n", "b">>

HawkValues ==
    {ZeroHawk} \cup
    {[ZeroHawk EXCEPT !.algorithm = SHA256, !.host = hst, !.port = p,
                      !.uri = uri, !.method = mtd, !.timestamp = ts,
                      !.nonce = n, !.reqContentType = ct, !.reqContent = cn,
                      !.reqExt = ext] :
        hst \in {Empty, <<"h">>}, p \in {Empty, <<"8">>},
        uri \in {Empty, <<"/">>}, mtd \in {Empty, <<"G">>},
        ts \in {0, 17}, n \in {Empty, <<"n">>},
        ct \in {Empty, <<"t">>}, cn \in {Empty, <<"c">>},
        ext \in {Empty, ExtLines}}

\* the URLs given to NewRequest: with and without port and path, with
\* another scheme, with a port that is no number, with an empty port
URL(scheme, rest) == scheme \o SchemeSep \o rest

URLs ==
    {URL(HTTP, <<"h", "/", "p">>),
     URL(HTTPS, <<"h", "/", "p">>),
     URL(HTTP, <<"h", ":", "8", "/", "p">>),
     URL(HTTPS, <<"h", ":", "8">>),
     URL(HTTP, <<"h">>),
     URL(HTTP, <<"h", "/">>),
     URL(<<"f", "t", "p">>, <<"h", "/", "p">>),
     URL(HTTP, <<"h", ":", "x", "/", "p">>),
     URL(HTTP, <<"h", ":", "/", "p">>)}

Bodies == {NoBody, StringsReader(<<"c">>), OtherReader(<<"c">>)}

MaxNonceLength == 2

\* what NewNonce(n) may return: n symbols of the alphabet
NewNonceResults(n) == {[j \in 1..n |-> IF j % 2 = 1 THEN "g" ELSE "0"]}

\* the clients NewClient may build
Clients ==
    {[uid |-> <<"u">>, key |-> "k1", hash |-> alg, NonceLength |-> n] :
        alg \in {NoHash, SHA256}, n \in 0..MaxNonceLength}

RECURSIVE Join(_)
Join(fs) == IF Len(fs) = 1 THEN fs[1] ELSE fs[1] \o Sep \o Join(Tail(fs))

\* a header made of the given fields
Header(fs) == Scheme \o Join(fs)

\* Server-Authorization values a peer may send in answer to the request of hk:
\* none, the request's own header echoed, and headers a holder of key k1 makes
\* over the envelope of hk, with and without hash and ext, with fields in
\* different orders, with keys the verifier does not know and with a key
\* given twice
Auths(hk) ==
    LET m(hsh, ext) == hashMAC(hk.algorithm, "k1", hk.timestamp, hk.nonce,
                               hk.method, hk.uri, hk.host, hk.port, hsh, ext)
        hc == hashPayload(hk.algorithm, <<"t">>, <<"c">>)
        e == <<"e">>
    IN  {Empty}
        \cup {GetAuthorization(hk, uid) : uid \in Uids}
        \cup {Header(<<Field(KeyMac, m(Empty, Empty))>>),
              Header(<<Field(KeyMac, m(hc, Empty)), Field(KeyHash, hc)>>),
              Header(<<Field(KeyExt, e), Field(KeyMac, m(Empty, e))>>),
              Header(<<Field(KeyMac, m(hc, Empty))>>),
              Header(<<Field(KeyHash, hc)>>),
              Header(<<Field(KeyMac, m(Empty, e)), Field(KeyId, <<"u">>),
                       Field(KeyMac, m(Empty, Empty))>>),
              Header(<<Field(KeyMac, m(Empty, Empty)), Field(KeyTs, <<"7">>),
                       Field(KeyMac, m(Empty, e))>>)}

Responses(hk) ==
    {MkResponse(ct, auth, body) :
        ct \in {Empty, <<"t">>, <<"t", ";", "x">>},
        auth \in Auths(hk),
        body \in {<<>>, <<(<<"c">>)>>}}

\* the contexts the response verifier is explored on: a complete envelope or
\* none, any content type and ext
DetailsResp ==
    {MkDetails(alg, <<"h">>, <<"8">>, <<"/">>, ct, <<"c">>, <<"G">>, 7, <<"n">>, ext) :
        alg \in {NoHash, SHA256},
        ct \in {Empty, <<"t">>, <<"t", ";", "x">>},
        ext \in {Empty, <<"e">>}}

\* the responses the request operations are explored with: no header or the
\* request's own header echoed
EchoResponses(hk) ==
    {MkResponse(ct, auth, body) :
        ct \in {Empty, <<"t", ";", "x">>},
        auth \in {Empty} \cup {GetAuthorization(hk, uid) : uid \in Uids},
        body \in {<<>>, <<(<<"c">>)>>}}

\* the responses Validate and Finalize are explored with on any Hawk value:
\* no header, and headers a holder of key k1 makes over the envelope of hk
\* with an ext that holds a newline, or with none
OpsResponses(hk) ==
    LET m(ext) == hashMAC(hk.algorithm, "k1", hk.timestamp, hk.nonce,
                          hk.method, hk.uri, hk.host, hk.port, Empty, ext)
    IN  {MkResponse(Empty, auth, <<>>) :
            auth \in {Empty,
                      Header(<<Field(KeyExt, ExtLines), Field(KeyMac, m(ExtLines))>>),
                      Header(<<Field(KeyMac, m(Empty))>>)}}

-----------------------------------------------------------------------------
(* The nonce generator (NewNonce) and the random source it shares          *)

letterBytes ==
    <<"0", "1", "2", "3", "4", "5", "6", "7", "8", "9",
      "a", "b", "c", "d", "e", "f", "g", "h", "i", "j", "k", "l", "m",
      "n", "o", "p", "q", "r", "s", "t", "u", "v", "w", "x", "y", "z",
      "A", "B", "C", "D", "E", "F", "G", "H", "I", "J", "K", "L", "M",
      "N", "O", "P", "Q", "R", "S", "T", "U", "V", "W", "X", "Y", "Z">>

letterIdxBits == 6

\* 1<<letterIdxBits - 1
letterIdxMask == 63

\* 63 / letterIdxBits
letterIdxMax == 10

\* the zero byte that make([]byte, n) fills the slice with
NUL == "NUL"

\* make([]byte, n)
MakeBytes(n) == [j \in 1..n |-> NUL]

\* A value of Int63 is written as its 6-bit groups, the least significant
\* first: cache & letterIdxMask is the first group and cache >>= 6 drops it.
\* The three bits above the ten groups are never read.
Groups == 0..letterIdxMask

\* the values the source may return: all groups 0, all groups 63 (the
\* largest value), and a value whose groups mix letters with 62 and 63
Draws ==
    {[j \in 1..letterIdxMax |-> 0],
     [j \in 1..letterIdxMax |-> 63],
     <<61, 62, 63, 0, 36, 62, 9, 10, 63, 35>>}

Callers == {1, 2}

\* a caller that is not in NewNonce
IdleNonce ==
    [pc |-> "idle", n |-> 0, i |-> 0, cache |-> <<>>, remain |-> 0, b |-> <<>>]

\* nobody is inside randSrc.Int63; raced: the callers whose draw in progress
\* has overlapped the draw of another caller
QuietSource == [inside |-> {}, raced |-> {}]

-----------------------------------------------------------------------------
(* The state machine: one context, created once and then operated on; each *)
(* call is a step that leaves what it returned in call                     *)

MkCall(op, hd, key, uid, r, ret, out) ==
    [op |-> op, hd |-> hd, key |-> key, uid |-> uid, r |-> r, ret |-> ret,
     out |-> out, url |-> Empty, req |-> NilRequest, examined |-> {}]

Bool(b) == IF b THEN "true" ELSE "false"

NoCall(op) == MkCall(op, ZeroDetails, "", Empty, NoResponse, "", Empty)

\* the zero value of Client, but for its hawk field, which is h
ZeroClient == [uid |-> Empty, key |-> "", hash |-> NoHash, NonceLength |-> 0]

\* the caller holds a zero-value Hawk and has called nothing yet
Init ==
    /\ h = ZeroHawk
    /\ call = NoCall("init")
    /\ client = ZeroClient
    /\ rnd = QuietSource
    /\ nn = [p \in Callers |-> IdleNonce]

\* no call is being looked at: the caller may make the next one
Idle == call.op \in {"init", "idle"}

\* the context is created at most once, before anything else is called; the
\* operations may also be called on the zero-value Hawk
DoCreate(D) ==
    /\ call.op = "init"
    /\ UNCHANGED <<client, gvars>>
    /\ \E hd \in D, now \in Clock, fresh \in FreshNonces :
        \E res \in {Create(hd, now, fresh)} :
            /\ h' = res.hawk
            /\ call' = MkCall("Create", hd, "", Empty, NoResponse, res.err, Empty)

DoValidate ==
    /\ Idle
    /\ UNCHANGED <<client, gvars>>
    /\ \E res \in {Validate(h)} :
        /\ h' = res.hawk
        /\ call' = MkCall("Validate", ZeroDetails, "", Empty, NoResponse,
                          Bool(res.ret), Empty)

DoFinalize ==
    /\ Idle
    /\ UNCHANGED <<client, gvars>>
    /\ \E key \in Keys :
        \E res \in {Finalize(h, key)} :
            /\ h' = res.hawk
            /\ call' = MkCall("Finalize", ZeroDetails, key, Empty, NoResponse,
                              Bool(res.ret), Empty)

DoGetAuthorization ==
    /\ Idle
    /\ UNCHANGED <<client, gvars>>
    /\ \E uid \in Uids :
        call' = MkCall("GetAuthorization", ZeroDetails, "", uid, NoResponse,
                       "", GetAuthorization(h, uid))
    /\ UNCHANGED h

DoGetReqMAC ==
    /\ Idle
    /\ UNCHANGED <<client, gvars>>
    /\ call' = MkCall("GetReqMAC", ZeroDetails, "", Empty, NoResponse, "",
                      GetReqMAC(h))
    /\ UNCHANGED h

DoGetReqHash ==
    /\ Idle
    /\ UNCHANGED <<client, gvars>>
    /\ call' = MkCall("GetReqHash", ZeroDetails, "", Empty, NoResponse, "",
                      GetReqHash(h))
    /\ UNCHANGED h

DoValidateResponse(Rs) ==
    /\ Idle
    /\ UNCHANGED <<client, gvars>>
    /\ \E k \in Keys, r \in Rs :
        \E res \in {ValidateResponse(h, k, r)} :
            /\ h' = res.hawk
            /\ call' = [MkCall("ValidateResponse", ZeroDetails, k, Empty, r,
                               res.ret, Empty)
                            EXCEPT !.examined = res.examined]

\* the caller is done with the result of the call and goes on
Return ==
    /\ ~Idle
    /\ UNCHANGED <<client, gvars>>
    /\ call' = NoCall("idle")
    /\ UNCHANGED h

\* the request side on every kind of Details
Next ==
    \/ DoCreate(DetailsSet)
    \/ DoValidate
    \/ DoFinalize
    \/ DoGetAuthorization
    \/ DoGetReqMAC
    \/ DoGetReqHash
    \/ DoValidateResponse(EchoResponses(h))
    \/ Return

Spec == Init /\ [][Next]_vars

\* the response verifier on every kind of response
NextResp ==
    \/ DoCreate(DetailsResp)
    \/ DoValidate
    \/ DoFinalize
    \/ DoValidateResponse(Responses(h))
    \/ Return

SpecResp == Init /\ [][NextResp]_vars

\* Validate, Finalize and ValidateResponse on any Hawk value, complete or not
InitOps ==
    /\ h \in HawkValues
    /\ call = NoCall("idle")
    /\ client = ZeroClient
    /\ rnd = QuietSource
    /\ nn = [p \in Callers |-> IdleNonce]

NextOps ==
    \/ DoValidate
    \/ DoFinalize
    \/ DoValidateResponse(OpsResponses(h))
    \/ Return

SpecOps == InitOps /\ [][NextOps]_vars

-----------------------------------------------------------------------------
(* The client: NewRequest and ValidateResponse on the Hawk it holds        *)

\* NewClient: the hawk field is the zero Hawk
InitClient ==
    /\ h = ZeroHawk
    /\ call = NoCall("idle")
    /\ client \in Clients
    /\ rnd = QuietSource
    /\ nn = [p \in Callers |-> IdleNonce]

DoNewRequest ==
    /\ Idle
    /\ \E method \in {<<"G">>}, url \in URLs, body \in Bodies,
          contentType \in {Empty, <<"t">>}, ext \in {Empty, <<"e">>},
          now \in Clock, nonce \in NewNonceResults(client.NonceLength),
          fresh \in FreshNonces :
        \E res \in {NewRequest(client, h, method, url, body, contentType, ext,
                               now, nonce, fresh)} :
            /\ h' = res.hawk
            /\ call' = [MkCall("NewRequest", res.hd, client.key, client.uid,
                               NoResponse, res.err, res.req.Authorization)
                            EXCEPT !.url = url, !.req = res.req]
    /\ UNCHANGED <<client, gvars>>

\* Client.ValidateResponse: ValidateResponse of the held Hawk with the
\* client's key
DoClientValidateResponse ==
    /\ Idle
    /\ \E r \in EchoResponses(h) :
        \E res \in {ValidateResponse(h, client.key, r)} :
            /\ h' = res.hawk
            /\ call' = [MkCall("ValidateResponse", ZeroDetails, client.key, Empty,
                               r, res.ret, Empty)
                            EXCEPT !.examined = res.examined]
    /\ UNCHANGED <<client, gvars>>

NextClient ==
    \/ DoNewRequest
    \/ DoClientValidateResponse
    \/ Return

SpecClient == InitClient /\ [][NextClient]_vars

-----------------------------------------------------------------------------
(* NewNonce as a state machine: each caller runs the loop of NewNonce step *)
(* by step; a call of randSrc.Int63 takes time, from BeginDraw to EndDraw  *)

MaxNonceLen == 11

MaxRaceLen == 1

\* NewNonce(n) is entered: b is made, i is n-1, and the first Int63 call of
\* the loop's init statement is about to be made
CallNewNonce(p, N) ==
    /\ nn[p].pc = "idle"
    /\ \E n \in 0..N :
        nn' = [nn EXCEPT ![p] = [pc |-> "enter", n |-> n, i |-> n - 1,
                                  cache |-> <<>>, remain |-> 0,
                                  b |-> MakeBytes(n)]]
    /\ UNCHANGED <<rnd, hvars>>

\* the caller enters randSrc.Int63: in the init statement, or in the loop
\* when remain is 0; nothing keeps another caller out
BeginDraw(p) ==
    /\ \/ nn[p].pc = "enter"
       \/ nn[p].pc = "loop" /\ nn[p].i >= 0 /\ nn[p].remain = 0
    /\ nn' = [nn EXCEPT ![p].pc = "draw"]
    /\ rnd' = [inside |-> rnd.inside \cup {p},
               raced |-> IF rnd.inside # {} THEN rnd.raced \cup rnd.inside \cup {p}
                         ELSE rnd.raced]
    /\ UNCHANGED hvars

\* Int63 returns a value: cache, remain = randSrc.Int63(), letterIdxMax
EndDraw(p) ==
    /\ nn[p].pc = "draw"
    /\ \E v \in Draws :
        nn' = [nn EXCEPT ![p].pc = "loop", ![p].cache = v,
                         ![p].remain = letterIdxMax]
    /\ rnd' = [inside |-> rnd.inside \ {p}, raced |-> rnd.raced \ {p}]
    /\ UNCHANGED hvars

\* a draw that overlapped another caller's draw ran on a generator state
\* that was being updated: besides returning any value it may panic with an
\* index out of range
PanicDraw(p) ==
    /\ nn[p].pc = "draw"
    /\ p \in rnd.raced
    /\ nn' = [nn EXCEPT ![p].pc = "panic"]
    /\ rnd' = [inside |-> rnd.inside \ {p}, raced |-> rnd.raced \ {p}]
    /\ UNCHANGED hvars

\* (the loop body reducing the group modulo the alphabet size instead of
\* discarding it)
StepModulo(p) ==
    /\ nn[p].pc = "loop"
    /\ nn[p].i >= 0
    /\ nn[p].remain > 0
    /\ LET idx == Head(nn[p].cache) % Len(letterBytes)
       IN  nn' = [nn EXCEPT ![p].b[nn[p].i + 1] = letterBytes[idx + 1],
                            ![p].i = nn[p].i - 1,
                            ![p].cache = Tail(nn[p].cache),
                            ![p].remain = nn[p].remain - 1]
    /\ UNCHANGED <<rnd, hvars>>

\* (the loop body moving to the next position also when the group is
\* discarded)
StepSkip(p) ==
    /\ nn[p].pc = "loop"
    /\ nn[p].i >= 0
    /\ nn[p].remain > 0
    /\ LET idx == Head(nn[p].cache)
       IN  IF idx < Len(letterBytes)
           THEN nn' = [nn EXCEPT ![p].b[nn[p].i + 1] = letterBytes[idx + 1],
                                 ![p].i = nn[p].i - 1,
                                 ![p].cache = Tail(nn[p].cache),
                                 ![p].remain = nn[p].remain - 1]
           ELSE nn' = [nn EXCEPT ![p].i = nn[p].i - 1,
                                 ![p].cache = Tail(nn[p].cache),
                                 ![p].remain = nn[p].remain - 1]
    /\ UNCHANGED <<rnd, hvars>>

\* one pass of the loop body with remain > 0: the lowest group of cache is
\* looked at, stored as a letter if it is an index of letterBytes, and
\* shifted out
Step(p) ==
    /\ nn[p].pc = "loop"
    /\ nn[p].i >= 0
    /\ nn[p].remain > 0
    /\ LET idx == Head(nn[p].cache)
       IN  IF idx < Len(letterBytes)
           THEN nn' = [nn EXCEPT ![p].b[nn[p].i + 1] = letterBytes[idx + 1],
                                 ![p].i = nn[p].i - 1,
                                 ![p].cache = Tail(nn[p].cache),
                                 ![p].remain = nn[p].remain - 1]
           ELSE nn' = [nn EXCEPT ![p].cache = Tail(nn[p].cache),
                                 ![p].remain = nn[p].remain - 1]
    /\ UNCHANGED <<rnd, hvars>>

\* the loop condition i >= 0 fails: NewNonce returns b as a string
ReturnNonce(p) ==
    /\ nn[p].pc = "loop"
    /\ nn[p].i < 0
    /\ nn' = [nn EXCEPT ![p].pc = "done"]
    /\ UNCHANGED <<rnd, hvars>>

\* the caller has taken the nonce and may call NewNonce again
TakeNonce(p) ==
    /\ nn[p].pc = "done"
    /\ nn' = [nn EXCEPT ![p] = IdleNonce]
    /\ UNCHANGED <<rnd, hvars>>

\* one caller, any length up to MaxNonceLen
NextNonce ==
    \/ CallNewNonce(1, MaxNonceLen)
    \/ BeginDraw(1)
    \/ EndDraw(1)
    \/ Step(1)
    \/ ReturnNonce(1)
    \/ TakeNonce(1)

SpecNonce == Init /\ [][NextNonce]_vars

\* two callers at once
NextRace ==
    \/ \E p \in Callers : CallNewNonce(p, MaxRaceLen)
    \/ \E p \in Callers : BeginDraw(p)
    \/ \E p \in Callers : EndDraw(p)
    \/ \E p \in Callers : PanicDraw(p)
    \/ \E p \in Callers : Step(p)
    \/ \E p \in Callers : ReturnNonce(p)
    \/ \E p \in Callers : TakeNonce(p)

SpecRace == Init /\ [][NextRace]_vars

-----------------------------------------------------------------------------
(* Claims about the request signing context (checked under Spec, and under *)
(* SpecOps where they are about Validate and Finalize on any Hawk value)   *)

\* a required field of Details is missing
MissingField(hd) ==
    \/ ~Available(hd.Algorithm)
    \/ hd.Host = Empty
    \/ hd.Port = Empty
    \/ hd.URI = Empty
    \/ hd.Method = Empty

\* C1: Create returns a non-nil error whenever Algorithm is unavailable or one
\* of Host, Port, URI, Method is empty, and a nil error only when all five are
\* present.
C1_CreateReportsMissingField ==
    call.op = "Create" => (call.ret # "nil" <=> MissingField(call.hd))

\* C2: Finalize on a Hawk whose request MAC is set returns false and changes
\* no field, whatever the key; so once the request MAC is set no call of any
\* operation assigns it again.
C2_FinalizeWriteOnce ==
    [][h.reqMAC # Empty =>
            /\ h'.reqMAC = h.reqMAC
            /\ (call'.op = "Finalize" => h' = h /\ call'.ret = "false")]_vars

\* a second Finalize, with another key than the one that made the stored MAC,
\* was rejected
C2_Witness ==
    /\ call.op = "Finalize"
    /\ call.ret = "false"
    /\ h.reqMAC # Empty
    /\ h.reqMAC # hashMAC(h.algorithm, call.key, h.timestamp, h.nonce, h.method,
                          h.uri, h.host, h.port, h.reqHash, h.reqExt)

\* C3: once the request MAC is set, every Validate call returns false and the
\* stored payload hash and MAC keep their values; the payload hash changes
\* only in a step taken from a state where the MAC is unset.
C3_NoValidateAfterMAC ==
    [][/\ h.reqMAC # Empty =>
            /\ h'.reqHash = h.reqHash
            /\ h'.reqMAC = h.reqMAC
            /\ (call'.op = "Validate" => call'.ret = "false")
       /\ h'.reqHash # h.reqHash => h.reqMAC = Empty]_vars

\* Validate was rejected only because the MAC is set: there is a content type
\* to hash and no payload hash was ever stored
C3_Witness ==
    /\ call.op = "Validate"
    /\ call.ret = "false"
    /\ h.reqMAC # Empty
    /\ h.reqContentType # Empty
    /\ h.reqHash = Empty

\* one of the six envelope fields Finalize needs is missing
Incomplete(hk) ==
    \/ hk.timestamp = 0
    \/ hk.nonce = Empty
    \/ hk.method = Empty
    \/ hk.uri = Empty
    \/ hk.host = Empty
    \/ hk.port = Empty

\* C11: whenever timestamp is 0 or one of nonce, method, uri, host, port is
\* empty, Finalize returns false, the MAC stays unset and no other field
\* changes; a step changes the MAC only when all six are present and the MAC
\* was unset.
C11_FinalizeNeedsEnvelope ==
    [][/\ (call'.op = "Finalize" /\ Incomplete(h)) =>
            /\ call'.ret = "false"
            /\ h'.reqMAC = Empty
            /\ h' = h
       /\ h'.reqMAC # h.reqMAC => (~Incomplete(h) /\ h.reqMAC = Empty)]_vars

\* Finalize returned false on a Hawk that lacks nothing but the uri
C11_Witness ==
    /\ call.op = "Finalize"
    /\ call.ret = "false"
    /\ h.uri = Empty
    /\ h.timestamp # 0
    /\ h.nonce # Empty
    /\ h.method # Empty
    /\ h.host # Empty
    /\ h.port # Empty

\* C12: Validate returns true and stores the payload hash of the request
\* content type and content exactly when the MAC is unset and the content
\* type is non-empty; otherwise it returns false and changes nothing, so
\* content without a content type is never hashed; a repeated Validate before
\* Finalize stores the same hash again.
C12_ValidateIffContentType ==
    [][call'.op = "Validate" =>
        /\ IF h.reqMAC = Empty /\ h.reqContentType # Empty
           THEN /\ call'.ret = "true"
                /\ h' = [h EXCEPT !.reqHash =
                            hashPayload(h.algorithm, h.reqContentType, h.reqContent)]
           ELSE /\ call'.ret = "false"
                /\ h' = h
        /\ (call'.ret = "true" /\ h.reqHash # Empty) => h'.reqHash = h.reqHash]_vars

\* Validate succeeded on a Hawk with content type and content
C12_Witness ==
    /\ call.op = "Validate"
    /\ call.ret = "true"
    /\ h.reqContent # Empty
    /\ h.reqHash = hashPayload(h.algorithm, h.reqContentType, h.reqContent)
    /\ h.reqMAC = Empty

\* C9: GetAuthorization returns the empty string exactly when the request MAC
\* is unset; the MAC is unset at the start, becomes set only by a Finalize
\* call that returns true, and every Finalize call that returns true sets it.
C9_HeaderIffFinalized ==
    /\ h.reqMAC = Empty
    /\ [][/\ call'.op = "GetAuthorization" =>
                (call'.out = Empty <=> h'.reqMAC = Empty)
          /\ (h.reqMAC = Empty /\ h'.reqMAC # Empty) =>
                (call'.op = "Finalize" /\ call'.ret = "true")
          /\ (call'.op = "Finalize" /\ call'.ret = "true") =>
                h'.reqMAC # Empty]_vars

\* GetAuthorization returned the empty string on a created context on which
\* Validate succeeded and Finalize did not
C9_Witness ==
    /\ call.op = "GetAuthorization"
    /\ call.out = Empty
    /\ h.reqHash # Empty
    /\ h.nonce # Empty

\* C14: a Create that succeeds (returns a nil error) keeps a non-zero
\* Timestamp and a non-empty Nonce of the Details, takes the current time for
\* a zero Timestamp and a freshly generated nonce for an empty Nonce, and so
\* returns a Hawk with a non-zero timestamp and a non-empty nonce.
C14_CreateKeepsOrDefaults ==
    (call.op = "Create" /\ call.ret = "nil") =>
        /\ IF call.hd.Timestamp # 0 THEN h.timestamp = call.hd.Timestamp
           ELSE h.timestamp \in Clock
        /\ IF call.hd.Nonce # Empty THEN h.nonce = call.hd.Nonce
           ELSE h.nonce \in FreshNonces
        /\ h.timestamp # 0
        /\ h.nonce # Empty

\* algorithm, host, port, uri, method, timestamp and nonce of a Hawk
Envelope(hk) ==
    <<hk.algorithm, hk.host, hk.port, hk.uri, hk.method, hk.timestamp, hk.nonce>>

\* C15: after Create, no call of Validate, Finalize, GetAuthorization,
\* GetReqMAC, GetReqHash or ValidateResponse, whatever it returns and in
\* whatever order, changes algorithm, host, port, uri, method, timestamp or
\* nonce.
C15_EnvelopeImmutable ==
    [][call'.op # "Create" => Envelope(h') = Envelope(h)]_vars

\* a created context was validated and finalized, and a response to it was
\* accepted
C15_Witness ==
    /\ call.op = "ValidateResponse"
    /\ call.ret = "true"
    /\ h.reqHash # Empty
    /\ h.reqMAC # Empty
    /\ h.nonce # Empty

\* the fields the header must show, in order: hash and ext only when non-empty
ExpectedFields(hk, uid) ==
    LET all == <<(<<KeyId, uid>>), (<<KeyTs, Dec(hk.timestamp)>>),
                 (<<KeyNonce, hk.nonce>>), (<<KeyHash, hk.reqHash>>),
                 (<<KeyExt, hk.reqExt>>), (<<KeyMac, hk.reqMAC>>)>>
        shown(f) == (f[1] \in {KeyHash, KeyExt}) => f[2] # Empty
    IN  SelectSeq(all, shown)

\* C10: a non-empty header returned by GetAuthorization is the scheme token
\* Hawk, then the fields id, ts, nonce, hash, ext, mac in this order, each as
\* key="value" and separated by comma-space; id, ts, nonce and mac always,
\* hash iff the payload hash is non-empty, ext iff the extension data is.
C10_HeaderFormat ==
    (call.op = "GetAuthorization" /\ call.out # Empty) =>
        LET fs == ExpectedFields(h, call.uid)
        IN  call.out = Scheme \o Join([i \in 1..Len(fs) |-> Field(fs[i][1], fs[i][2])])

\* a header with both optional fields
C10_Witness ==
    /\ call.op = "GetAuthorization"
    /\ call.out # Empty
    /\ h.reqHash # Empty
    /\ h.reqExt # Empty

-----------------------------------------------------------------------------
(* Claims about the nonce generator (checked under SpecNonce and SpecRace) *)

\* 0-9a-zA-Z
Alphabet == {letterBytes[j] : j \in 1..Len(letterBytes)}

\* C18: for every n >= 0 and whatever values the random source returns, the
\* string NewNonce(n) returns has exactly n characters, each one of the 62
\* symbols 0-9a-zA-Z; for n = 0 it is the empty string, and lengths above 10,
\* which need a second draw, are exact as well.
C18_NonceLengthAndAlphabet ==
    /\ Cardinality(Alphabet) = 62
    /\ \A p \in Callers :
        nn[p].pc = "done" =>
            /\ Len(nn[p].b) = nn[p].n
            /\ \A j \in 1..Len(nn[p].b) : nn[p].b[j] \in Alphabet
            /\ (nn[p].n = 0 => nn[p].b = Empty)

\* a nonce longer than one draw can fill was returned, after a draw that
\* held discarded groups
C18_Witness ==
    /\ nn[1].pc = "done"
    /\ nn[1].n > letterIdxMax
    /\ nn[1].remain > 0
    /\ \E j \in 1..Len(nn[1].cache) : nn[1].cache[j] >= 62

\* C19: NewNonce consumes each draw in 6-bit groups, lowest first, ten per
\* draw, and draws again only at the start and when the ten are used up; a
\* group of value 62 or 63 is dropped and no character is stored for it, and
\* the character stored for any other group g is letterBytes[g], at the
\* highest position still free: no group is reduced modulo 62.
C19_GroupsDiscardedNotReduced ==
    [][\A p \in Callers :
        LET a == nn[p]
            z == nn'[p]
        IN  /\ (a.pc # "draw" /\ z.pc = "draw") =>
                    (a.pc = "enter" \/ (a.pc = "loop" /\ a.remain = 0))
            /\ (a.pc = "draw" /\ z.pc = "loop") =>
                    (z.remain = 10 /\ Len(z.cache) = 10
                        /\ \A j \in 1..10 : z.cache[j] \in 0..63)
            /\ (a.pc = "loop" /\ z.pc = "loop" /\ z # a) =>
                    /\ a.remain > 0
                    /\ z.remain = a.remain - 1
                    /\ z.cache = Tail(a.cache)
                    /\ IF Head(a.cache) \in {62, 63}
                       THEN z.b = a.b /\ z.i = a.i
                       ELSE /\ z.i = a.i - 1
                            /\ z.b = [a.b EXCEPT ![a.i + 1] =
                                        letterBytes[Head(a.cache) + 1]]]_vars

\* in the middle of a draw, more of its groups have been consumed than
\* characters were stored in the whole call, and some were stored: a group
\* was discarded and a later one used
C19_Witness ==
    /\ nn[1].pc = "loop"
    /\ nn[1].i < nn[1].n - 1
    /\ nn[1].i >= 0
    /\ letterIdxMax - nn[1].remain > nn[1].n - 1 - nn[1].i

\* C20: when two callers run NewNonce at once, at most one of them is inside
\* randSrc.Int63 at any time, and each call that returns gives a nonce of the
\* requested length (no call is lost to a panic).
C20_DrawsMutuallyExclusive ==
    /\ Cardinality(rnd.inside) <= 1
    /\ \A p \in Callers :
        /\ nn[p].pc # "panic"
        /\ nn[p].pc = "done" => Len(nn[p].b) = nn[p].n

-----------------------------------------------------------------------------
(* Claims about the response verifier (checked under SpecResp)             *)

\* the value of the last field named key among the parsed elements es:
\* <<value>>, or <<>> when no field has that name
RECURSIVE LastValue(_, _)
LastValue(es, key) ==
    IF es = <<>> THEN <<>>
    ELSE LET rest == LastValue(Tail(es), key)
         IN  IF rest # <<>> THEN rest
             ELSE IF Head(es)[1] = key THEN <<Head(es)[2]>>
             ELSE <<>>

\* what the Server-Authorization header of r supplies for key
Supplied(r, key) == LastValue(FindAllSubmatch(r.ServerAuthorization), key)

\* the same, with the empty string for a field that is not there
SuppliedOrEmpty(r, key) ==
    IF Supplied(r, key) = <<>> THEN Empty ELSE Supplied(r, key)[1]

\* the Content-Type of r without its parameters, and the bytes of its body
StrippedType(r) ==
    IF Index(r.ContentType, ";") # -1
    THEN SubSeq(r.ContentType, 1, Index(r.ContentType, ";"))
    ELSE r.ContentType

BodyBytes(r) == IF r.Body = <<>> THEN Empty ELSE r.Body[1]

\* the payload hash of the response r itself
ResponseHash(hk, r) == hashPayload(hk.algorithm, StrippedType(r), BodyBytes(r))

\* the MAC of key k over the envelope of hk with the given hash and ext
EnvelopeMAC(hk, k, hsh, ext) ==
    hashMAC(hk.algorithm, k, hk.timestamp, hk.nonce, hk.method, hk.uri,
            hk.host, hk.port, hsh, ext)

\* C4: ValidateResponse returns true only if the header supplies a mac and
\* that mac equals the MAC recomputed with the caller's key over the envelope,
\* the hash (the one supplied, or the one recomputed from the response) and
\* the ext the peer supplied.
C4_AcceptOnlyOnSuppliedMAC ==
    (call.op = "ValidateResponse" /\ call.ret = "true") =>
        /\ Supplied(call.r, KeyMac) # <<>>
        /\ \E hsh \in {SuppliedOrEmpty(call.r, KeyHash), ResponseHash(h, call.r)} :
              Supplied(call.r, KeyMac)[1] =
                  EnvelopeMAC(h, call.key, hsh, SuppliedOrEmpty(call.r, KeyExt))

\* C5: when the header carries a hash value, ValidateResponse returns true
\* only if that value equals the payload hash recomputed from the response's
\* content type (parameters stripped) and the response's body.
C5_CarriedHashMustMatch ==
    (/\ call.op = "ValidateResponse"
     /\ call.ret = "true"
     /\ SuppliedOrEmpty(call.r, KeyHash) # Empty) =>
        SuppliedOrEmpty(call.r, KeyHash) = ResponseHash(h, call.r)

\* hk as a freshly created Hawk with the same envelope: nothing read from a
\* response yet
Fresh(hk) ==
    [hk EXCEPT !.respContentType = Empty, !.respContent = Empty,
               !.respExt = Empty, !.respHash = Empty, !.respMAC = Empty]

\* C6: the verdict of ValidateResponse depends only on the key, the envelope
\* and the response of that call: it is the verdict a freshly created Hawk
\* with the same envelope gives for the same key and response.
C6_VerdictIgnoresEarlierResponses ==
    call.op = "ValidateResponse" =>
        call.ret = ValidateResponse(Fresh(h), call.key, call.r).ret

\* C7 (round trip), already for the first response a context sees: after a
\* successful Finalize, a response whose Server-Authorization is the string
\* GetAuthorization returns and whose Content-Type and body are the request's
\* content type and content is accepted under the finalizing key.
C7_RoundTrip ==
    [][(/\ call'.op = "ValidateResponse"
        /\ h = Fresh(h)
        /\ h.reqMAC # Empty
        /\ h.reqMAC = EnvelopeMAC(h, call'.key, h.reqHash, h.reqExt)
        /\ \E uid \in Uids : call'.r.ServerAuthorization = GetAuthorization(h, uid)
        /\ call'.r.ContentType = h.reqContentType
        /\ call'.r.Body = <<h.reqContent>>) =>
            call'.ret = "true"]_vars

\* the value the verifier must hold for key after reading r: the last value
\* the header gives it, or what the Hawk held before
Taken(r, key, before) ==
    IF Supplied(r, key) # <<>> THEN Supplied(r, key)[1] ELSE before

\* C16: ValidateResponse reads the Server-Authorization value as key="value"
\* pairs in any order; it takes ext, hash and mac from them, each from the
\* last pair with that key, and a pair with any other key (id, ts, nonce)
\* changes nothing.
C16_LastValueOfKnownKeys ==
    [][call'.op = "ValidateResponse" =>
        /\ h'.respExt = Taken(call'.r, KeyExt, h.respExt)
        /\ h'.respHash = Taken(call'.r, KeyHash, h.respHash)
        /\ h'.respMAC = Taken(call'.r, KeyMac, h.respMAC)
        /\ Envelope(h') = Envelope(h)
        /\ <<h'.reqContentType, h'.reqContent, h'.reqExt, h'.reqHash, h'.reqMAC>>
             = <<h.reqContentType, h.reqContent, h.reqExt, h.reqHash, h.reqMAC>>]_vars

\* a header that gives mac twice, with an id between, was accepted on the
\* strength of the second mac; the first is the MAC for an ext of e
C16_Witness ==
    /\ call.op = "ValidateResponse"
    /\ call.ret = "true"
    /\ call.r.ServerAuthorization =
          Header(<<Field(KeyMac, EnvelopeMAC(h, call.key, Empty, <<"e">>)),
                   Field(KeyId, <<"u">>),
                   Field(KeyMac, EnvelopeMAC(h, call.key, Empty, Empty))>>)
    /\ h.respMAC = EnvelopeMAC(h, call.key, Empty, Empty)
    /\ h.respExt = Empty

\* C17: the content type ValidateResponse hashes is the Content-Type of the
\* response up to its first semicolon, the whole value when it has none, and
\* the empty string when the response has no Content-Type.
C17_HashedContentType ==
    (call.op = "ValidateResponse" /\ call.ret # "panic") =>
        h.respContentType = StrippedType(call.r)

-----------------------------------------------------------------------------
(* Claims about the client (checked under SpecClient)                      *)

\* C13: every NewRequest call that returns a nil error returns a request
\* whose Authorization header is a non-empty Hawk header with a mac field,
\* for every URL of the form scheme://host[:port][/path] with scheme http or
\* https and for every nonce length.
C13_RequestIsSigned ==
    (call.op = "NewRequest" /\ call.ret = "nil") =>
        /\ ~call.req.nil
        /\ call.req.Authorization # Empty
        /\ HasPrefix(call.req.Authorization, Scheme)
        /\ LastValue(FindAllSubmatch(call.req.Authorization), KeyMac) # <<>>

\* the parts of a URL, read off its text: the scheme before the first colon,
\* the authority between the two slashes and the next slash, and in the
\* authority the host before its colon and the port field after it
URLScheme(url) == SubSeq(url, 1, Index(url, ":"))

URLAuthority(url) ==
    LET rest == Drop(url, Index(url, ":") + 3)
    IN  IF Index(rest, "/") = -1 THEN rest ELSE SubSeq(rest, 1, Index(rest, "/"))

URLHasPort(url) == Index(URLAuthority(url), ":") # -1

URLHost(url) ==
    IF URLHasPort(url)
    THEN SubSeq(URLAuthority(url), 1, Index(URLAuthority(url), ":"))
    ELSE URLAuthority(url)

URLPort(url) == Drop(URLAuthority(url), Index(URLAuthority(url), ":") + 1)

IsDecimal(s) == s # Empty /\ \A j \in 1..Len(s) : s[j] \in DigitChars

\* C21: the port NewRequest puts into the Details it signs is the port the
\* URL gives after the host, and without one 443 for https and 80 for http;
\* the host is the URL's host without the port; and where the request is
\* signed, these are the host and port of the stored context and of the MAC
\* in the header.
C21_HostAndPortOfURL ==
    (call.op = "NewRequest" /\ call.ret = "nil") =>
        LET port == IF URLHasPort(call.url) THEN URLPort(call.url)
                    ELSE IF URLScheme(call.url) = HTTPS THEN <<"4", "4", "3">>
                    ELSE <<"8", "0">>
        IN  /\ call.hd.Host = URLHost(call.url)
            /\ call.hd.Port = port
            /\ call.req.Authorization # Empty =>
                    /\ h.host = URLHost(call.url)
                    /\ h.port = port
                    /\ LastValue(FindAllSubmatch(call.req.Authorization), KeyMac)
                         = <<hashMAC(h.algorithm, call.key, h.timestamp, h.nonce,
                                     h.method, h.uri, URLHost(call.url), port,
                                     h.reqHash, h.reqExt)>>

\* a request to a URL with an explicit port was signed
C21_Witness ==
    /\ call.op = "NewRequest"
    /\ call.ret = "nil"
    /\ call.req.Authorization # Empty
    /\ URLHasPort(call.url)
    /\ h.port = <<"8">>
    /\ h.host = <<"h">>

\* C22: for every URL whose scheme is neither http nor https, and for every
\* URL whose port field is not a decimal number, NewRequest returns a non-nil
\* error and no request, signed or not.
C22_BadURLRejected ==
    (/\ call.op = "NewRequest"
     /\ \/ URLScheme(call.url) \notin {HTTP, HTTPS}
        \/ URLHasPort(call.url) /\ ~IsDecimal(URLPort(call.url))) =>
        /\ call.ret \notin {"nil", "panic"}
        /\ call.req.nil
        /\ call.req.Authorization = Empty

\* a URL with the scheme ftp was rejected by a client that holds a signed
\* context from an earlier request
C22_Witness ==
    /\ call.op = "NewRequest"
    /\ call.ret # "nil"
    /\ URLScheme(call.url) = <<"f", "t", "p">>
    /\ h.reqMAC # Empty

-----------------------------------------------------------------------------
(* Claims about the MAC preimage (checked under SpecOps)                   *)

\* the given texts, each followed by one newline
RECURSIVE Lines(_)
Lines(ts) == IF ts = <<>> THEN <<>> ELSE Head(ts) \o <<"\n">> \o Lines(Tail(ts))

\* the preimage as the protocol lays it out, over request or response side
\* hash and ext
ProtocolPreimage(hk, hsh, ext) ==
    Lines(<<HeaderPrefix, Dec(hk.timestamp), hk.nonce, hk.method, hk.uri,
            hk.host, hk.port, hsh, ext>>)

\* C23: the text the header MAC is computed over is the line hawk.1.header
\* and then timestamp (in decimal), nonce, method, uri, host, port, payload
\* hash and ext, in this order, each followed by one newline, empty where
\* unset and copied as they are, newlines included; Finalize computes the
\* request MAC over it and ValidateResponse the MAC it compares with.
C23_PreimageLayout ==
    [][/\ (call'.op = "Finalize" /\ call'.ret = "true") =>
            h'.reqMAC = HMAC(h.algorithm, call'.key,
                             ProtocolPreimage(h, h.reqHash, h.reqExt))
       /\ (call'.op = "ValidateResponse" /\ call'.ret # "panic") =>
            LET mac == HMAC(h'.algorithm, call'.key,
                            ProtocolPreimage(h', h'.respHash, h'.respExt))
                hashOK == h'.respHash \in
                            {Empty, hashPayload(h'.algorithm, h'.respContentType,
                                                h'.respContent)}
            IN  call'.ret = "true" <=> (hashOK /\ h'.respMAC = mac)]_vars

\* Finalize made the MAC of a context whose ext holds a newline and whose
\* timestamp has two digits: the preimage, written out
C23_Witness ==
    /\ call.op = "Finalize"
    /\ call.ret = "true"
    /\ h.reqHash = Empty
    /\ h.reqMAC = HMAC(SHA256, call.key,
                       HeaderPrefix \o <<"\n", "1", "7", "\n", "n", "\n", "G", "\n",
                                         "/", "\n", "h", "\n", "8", "\n", "\n",
                                         "a", "\n", "b", "\n">>)

\* the contexts that differ from hk in exactly one of timestamp, nonce, uri,
\* host, port, ext and payload hash, before they are finalized
Tampered(hk) ==
    LET base == [hk EXCEPT !.reqMAC = Empty]
    IN  {[base EXCEPT !.timestamp = v] : v \in {7, 17, 71, 117} \ {hk.timestamp}}
        \cup {[base EXCEPT !.nonce = v] :
                v \in {<<"n">>, <<"m">>, <<"n", "\n", "G">>} \ {hk.nonce}}
        \cup {[base EXCEPT !.uri = v] :
                v \in {<<"/">>, <<"/", "/">>, <<"/", "\n", "h">>} \ {hk.uri}}
        \cup {[base EXCEPT !.host = v] :
                v \in {<<"h">>, <<"g">>, <<"h", "\n", "8">>} \ {hk.host}}
        \cup {[base EXCEPT !.port = v] :
                v \in {<<"8">>, <<"8", "0">>, <<"8", "\n">>} \ {hk.port}}
        \cup {[base EXCEPT !.reqExt = v] :
                v \in {Empty, <<"a">>, ExtLines, <<"\n">>} \ {hk.reqExt}}
        \cup {[base EXCEPT !.reqHash = v] :
                v \in {Empty, hashPayload(hk.algorithm, <<"t">>, <<"c">>),
                       hashPayload(hk.algorithm, <<"t">>, Empty)} \ {hk.reqHash}}

\* the header preimage of a context
PreimageOf(hk) ==
    HeaderPreimage(hk.timestamp, hk.nonce, hk.method, hk.uri, hk.host, hk.port,
                   hk.reqHash, hk.reqExt)

\* C24 (tamper sensitivity): a context finalized with the same key and
\* algorithm that differs from a finalized context in exactly one of
\* timestamp, nonce, uri, host, port, ext and payload hash has another header
\* preimage and so, the MAC function being collision-free, another MAC.
C24_TamperChangesMAC ==
    (call.op = "Finalize" /\ call.ret = "true") =>
        \A t \in Tampered(h) :
            /\ PreimageOf(t) # PreimageOf(h)
            /\ Finalize(t, call.key).ret
            /\ Finalize(t, call.key).hawk.reqMAC # h.reqMAC

\* a context with payload hash and ext was finalized
C24_Witness ==
    /\ call.op = "Finalize"
    /\ call.ret = "true"
    /\ h.reqHash # Empty
    /\ h.reqExt # Empty
    /\ Cardinality(Tampered(h)) > 7

-----------------------------------------------------------------------------
(* Claims about the time of the MAC comparison (checked under SpecResp)    *)

\* C25: the comparison of the supplied mac with the recomputed MAC takes
\* constant time: the number of bytes it looks at is fixed by the lengths of
\* the two texts and does not depend on where they first differ.
C25_ConstantTimeComparison ==
    (call.op = "ValidateResponse" /\ call.examined # {}) =>
        Cardinality(call.examined) = 1

-----------------------------------------------------------------------------
(* Claims about the stored request MAC (checked under Spec)                *)

\* the value of the field key of a printed header, the empty string when the
\* header has no such field
Printed(header, key) ==
    LET v == LastValue(FindAllSubmatch(header), key)
    IN  IF v = <<>> THEN Empty ELSE v[1]

\* C26: whenever the request MAC is set it is the MAC of the finalizing key
\* over the current timestamp, nonce, method, uri, host, port, payload hash
\* and ext of the context; so the hash and ext that GetAuthorization prints
\* are the values bound into the mac it prints.
C26_StoredMACBindsCurrentFields ==
    /\ h.reqMAC # Empty =>
            \E k \in Keys : h.reqMAC = EnvelopeMAC(h, k, h.reqHash, h.reqExt)
    /\ (call.op = "Finalize" /\ call.ret = "true") =>
            h.reqMAC = EnvelopeMAC(h, call.key, h.reqHash, h.reqExt)
    /\ (call.op = "GetAuthorization" /\ call.out # Empty) =>
            \E k \in Keys :
                Printed(call.out, KeyMac) =
                    EnvelopeMAC(h, k, Printed(call.out, KeyHash),
                                Printed(call.out, KeyExt))

\* Validate was called on a context whose MAC binds a payload hash, and the
\* hash stayed: a header printed now carries the bound hash
C26_Witness ==
    /\ call.op = "Validate"
    /\ call.ret = "false"
    /\ h.reqMAC # Empty
    /\ h.reqHash # Empty
    /\ h.reqExt # Empty


-----------------------------------------------------------------------------
(* Claims about responses without a mac (checked under SpecResp)           *)

\* C27: a response whose Server-Authorization header is absent or has no mac
\* field is never accepted by ValidateResponse, in any state of the context,
\* also after earlier calls on the same Hawk that were accepted.
C27_NoMacNeverAccepted ==
    (call.op = "ValidateResponse" /\ Supplied(call.r, KeyMac) = <<>>) =>
        call.ret # "true"


-----------------------------------------------------------------------------
(* Claims about the first Finalize of a created context (checked under     *)
(* Spec)                                                                   *)

\* C28: on a context returned by Create for Details with an available
\* algorithm and non-empty host, port, uri and method, timestamp and nonce
\* supplied or not, the first Finalize returns true and sets a non-empty
\* MAC, after a Validate call or without one.  (The algorithm of the context
\* is available only after such a Create, and the MAC is unset until the
\* first Finalize that returns true.)
C28_FirstFinalizeSucceeds ==
    [][/\ h'.algorithm # h.algorithm =>
            call'.op = "Create" /\ ~MissingField(call'.hd)
       /\ (call'.op = "Create" /\ ~MissingField(call'.hd)) =>
            Available(h'.algorithm) /\ h'.reqMAC = Empty
       /\ (call'.op = "Finalize" /\ Available(h.algorithm) /\ h.reqMAC = Empty) =>
            /\ call'.ret = "true"
            /\ h'.reqMAC # Empty]_vars

\* the first Finalize of a context created without timestamp and nonce, no
\* Validate before it
C28_Witness ==
    /\ call.op = "Finalize"
    /\ call.ret = "true"
    /\ h.timestamp \in Clock
    /\ h.nonce \in FreshNonces
    /\ h.reqContentType # Empty
    /\ h.reqHash = Empty


-----------------------------------------------------------------------------
(* Claims about the context the client holds (checked under SpecClient)    *)

\* C29: the context the client verifies responses against is the one of the
\* most recent NewRequest call that returned a nil error: such a call stores
\* the envelope of its request (the method, uri, host and port of the call
\* and the timestamp and nonce its Authorization header shows), a NewRequest
\* call that does not return nil leaves the stored context as it was, and
\* Client.ValidateResponse does not change the envelope.
C29_StoredContextOfLastRequest ==
    [][/\ (call'.op = "NewRequest" /\ call'.ret = "nil") =>
            /\ h'.method = call'.hd.Method
            /\ h'.uri = call'.hd.URI
            /\ h'.host = call'.hd.Host
            /\ h'.port = call'.hd.Port
            /\ h'.timestamp = call'.hd.Timestamp
            /\ call'.hd.Nonce # Empty => h'.nonce = call'.hd.Nonce
            /\ Printed(call'.req.Authorization, KeyTs) = Dec(h'.timestamp)
            /\ Printed(call'.req.Authorization, KeyNonce) = h'.nonce
       /\ (call'.op = "NewRequest" /\ call'.ret # "nil") => h' = h
       /\ call'.op # "NewRequest" => Envelope(h') = Envelope(h)]_vars

\* a NewRequest call that returns an error leaves the stored context as it
\* was (the part of C29 that holds)
C29_ErrorKeepsContext ==
    [][(call'.op = "NewRequest" /\ call'.ret # "nil") => h' = h]_vars


====
